---- MODULE Spec2Model ----
(***************************************************************************)
(* Model of tti.utils.trading_simulation.TradingSimulation.                *)
(*                                                                         *)
(* The class keeps two pandas DataFrames (_portfolio, _simulation_data)    *)
(* and a dict (_statistics).  Every method is translated statement by      *)
(* statement, in Python's evaluation order, over a small model of the      *)
(* pandas operations the statements use.  A Python exception is a value:   *)
(* every helper returns a record with a field exc, and a handler stops at  *)
(* the first statement whose exc is not NoExc, keeping the writes made     *)
(* before it.                                                              *)
(***************************************************************************)
EXTENDS FiniteSets, Integers, Sequences, TLC

(***************************************************************************)
(* Bounds of the model.                                                    *)
(***************************************************************************)
NumDays == 4
MaxItems == 2

(***************************************************************************)
(* Cells.  A DataFrame built with data=None holds NaN in every cell; the   *)
(* code stores strings ('hold', 'N/A', ...) and numbers in them.           *)
(***************************************************************************)
NaN == [nan |-> TRUE]
Num(v) == [num |-> v]
Str(s) == [str |-> s]
IsNum(c) == DOMAIN c = {"num"}
IsNaN(c) == DOMAIN c = {"nan"}

NoExc == "none"
ValueError == "ValueError"
TypeError == "TypeError"
KeyError == "KeyError"
WrongTypeForInputParameter == "WrongTypeForInputParameter"
WrongValueForInputParameter == "WrongValueForInputParameter"
NotValidInputDataForSimulation == "NotValidInputDataForSimulation"

\* An expression that evaluated to v, and one that raised e.
Ok(v) == [exc |-> NoExc, value |-> v]
Raise(e) == [exc |-> e, value |-> NaN]

(***************************************************************************)
(* Python objects passed to the constructor.                               *)
(***************************************************************************)
None == [type |-> "NoneType"]
PyInt(v) == [type |-> "int", v |-> v]
PyFloat(v) == [type |-> "float", v |-> v]
PyStr(s) == [type |-> "str", s |-> s]
\* isinstance(x, int) and isinstance(x, (int, float))
IsInstanceInt(x) == x.type = "int"
IsInstanceIntFloat(x) == x.type \in {"int", "float"}

(***************************************************************************)
(* pandas.                                                                 *)
(* A DataFrame is its index, its column names and one record per row; a    *)
(* Series is a sequence of cells.  Python positions are 0-based: position  *)
(* i is element i + 1 of the sequence.                                     *)
(***************************************************************************)
PortfolioColumns == <<"position", "items", "unit_price", "status">>
SimulationColumns ==
    <<"signal", "trading_action", "stocks_in_transaction", "balance",
      "stock_value", "total_value">>

Range(s) == {s[k] : k \in DOMAIN s}

\* pd.DataFrame(index=index, columns=columns, data=None): all cells NaN.
DataFrame(index, columns) ==
    [type |-> "DataFrame", index |-> index, columns |-> columns,
     data |-> [k \in DOMAIN index |-> [c \in Range(columns) |-> NaN]]]

\* df[col] for a column label: the column as a Series, KeyError if absent.
DataFrame_getitem(df, col) ==
    IF col \in Range(df.columns)
    THEN Ok([k \in DOMAIN df.data |-> df.data[k][col]])
    ELSE Raise(KeyError)

\* df.iat[key] = value with a single integer key.  DataFrame.iat addresses
\* one cell by a (row, column) pair of integers: a lone integer is padded
\* to (key, slice(None)) and the slice is rejected with ValueError ("iAt
\* based indexing can only have integer indexers") before anything is
\* stored.
DataFrame_iat_setitem(df, key, value) ==
    [exc |-> ValueError, df |-> df]

\* df.iat[key] with a single integer key: the scalar getter is called with
\* the row alone and fails for the missing column argument.
DataFrame_iat_getitem(df, key) ==
    Raise(TypeError)

\* series.iat[key]: the cell at position key (negative keys count from the
\* end), IndexError outside.
Series_iat_getitem(series, key) ==
    LET n == Len(series)
        pos == IF key < 0 THEN key + n ELSE key
    IN IF pos >= 0 /\ pos < n THEN Ok(series[pos + 1]) ELSE Raise("IndexError")

\* series == scalar, element by element (NaN equals nothing).
Series_eq(series, scalar) ==
    [k \in DOMAIN series |-> series[k] = scalar]

\* bool(series), which `a and b` and `if a` take of their left operand:
\* pandas refuses with ValueError ("The truth value of a Series is
\* ambiguous") whatever the Series holds.
Series_bool(series) ==
    Raise(ValueError)

\* a and b, for two expressions that give Series: a is evaluated, then
\* bool(a), and b only if that is True.
Series_and(a, b) ==
    IF a.exc # NoExc THEN a
    ELSE LET t == Series_bool(a.value)
         IN IF t.exc # NoExc THEN Raise(t.exc)
            ELSE IF t.value THEN b ELSE a

\* series.sum(): NaN cells are skipped.
RECURSIVE Series_sum_from(_, _)
Series_sum_from(series, k) ==
    IF k > Len(series) THEN 0
    ELSE (IF IsNum(series[k]) THEN series[k].num ELSE 0)
         + Series_sum_from(series, k + 1)

Series_sum(series) == Ok(Num(Series_sum_from(series, 1)))

\* df[mask] for a boolean Series: a new DataFrame (a copy) of the rows
\* where the mask is True.
DataFrame_select(df, mask) ==
    LET keep == SelectSeq([k \in DOMAIN df.data |-> k], LAMBDA k : mask[k])
    IN [df EXCEPT !.index = [j \in DOMAIN keep |-> df.index[keep[j]]],
                  !.data = [j \in DOMAIN keep |-> df.data[keep[j]]]]

\* df1.index.equals(df2.index)
Index_equals(a, b) == a = b

(***************************************************************************)
(* Python arithmetic on cells.  NaN is a float: it propagates through + - *)
(* and *, and every comparison with it is False.  A string operand of an   *)
(* arithmetic operator or of < is a TypeError.                             *)
(***************************************************************************)
Cell_arith(x, y, r) ==
    IF IsNum(x) /\ IsNum(y) THEN Ok(Num(r))
    ELSE IF (IsNum(x) \/ IsNaN(x)) /\ (IsNum(y) \/ IsNaN(y)) THEN Ok(NaN)
    ELSE Raise(TypeError)

\* a - b, a + b, a * b on outcomes, left operand first.
Py_sub(a, b) ==
    IF a.exc # NoExc THEN a ELSE IF b.exc # NoExc THEN b
    ELSE Cell_arith(a.value, b.value,
                    IF IsNum(a.value) /\ IsNum(b.value)
                    THEN a.value.num - b.value.num ELSE 0)

Py_add(a, b) ==
    IF a.exc # NoExc THEN a ELSE IF b.exc # NoExc THEN b
    ELSE Cell_arith(a.value, b.value,
                    IF IsNum(a.value) /\ IsNum(b.value)
                    THEN a.value.num + b.value.num ELSE 0)

Py_mul(a, b) ==
    IF a.exc # NoExc THEN a ELSE IF b.exc # NoExc THEN b
    ELSE Cell_arith(a.value, b.value,
                    IF IsNum(a.value) /\ IsNum(b.value)
                    THEN a.value.num * b.value.num ELSE 0)

\* a < 0
Py_lt0(a) ==
    IF a.exc # NoExc THEN a
    ELSE IF IsNum(a.value) THEN Ok(a.value.num < 0)
    ELSE IF IsNaN(a.value) THEN Ok(FALSE)
    ELSE Raise(TypeError)

\* int(a / b): true division, then truncation toward zero.  int(nan) is a
\* ValueError, division by zero a ZeroDivisionError.
Py_int_div(a, b) ==
    IF a.exc # NoExc THEN a ELSE IF b.exc # NoExc THEN b
    ELSE IF ~(IsNum(a.value) \/ IsNaN(a.value)) THEN Raise(TypeError)
    ELSE IF ~(IsNum(b.value) \/ IsNaN(b.value)) THEN Raise(TypeError)
    ELSE IF IsNum(b.value) /\ b.value.num = 0 THEN Raise("ZeroDivisionError")
    ELSE IF IsNaN(a.value) \/ IsNaN(b.value) THEN Raise(ValueError)
    ELSE LET x == a.value.num
             y == b.value.num
             sign == IF (x < 0) = (y < 0) THEN 1 ELSE -1
             ax == IF x < 0 THEN -x ELSE x
             ay == IF y < 0 THEN -y ELSE y
         IN Ok(Num(sign * (ax \div ay)))

\* min(a, b) of two numbers.
Py_min(a, b) == IF b < a THEN b ELSE a

\* sum(series): 0 + s[0] + s[1] + ...
RECURSIVE Py_sum_from(_, _, _)
Py_sum_from(series, k, acc) ==
    IF acc.exc # NoExc \/ k > Len(series) THEN acc
    ELSE Py_sum_from(series, k + 1, Py_add(acc, Ok(series[k])))

Py_sum(series) == Py_sum_from(series, 1, Ok(Num(0)))

\* The exception of the first expression, in order, that raised.
RECURSIVE FirstExc_from(_, _)
FirstExc_from(outcomes, k) ==
    IF k > Len(outcomes) THEN NoExc
    ELSE IF outcomes[k].exc # NoExc THEN outcomes[k].exc
    ELSE FirstExc_from(outcomes, k + 1)

FirstExc(outcomes) == FirstExc_from(outcomes, 1)

(***************************************************************************)
(* tti.utils.constants and tti.utils.data_validation.                      *)
(***************************************************************************)
TRADE_SIGNALS ==
    [hold |-> <<"hold", 0>>, buy |-> <<"buy", -1>>, sell |-> <<"sell", 1>>]

\* The signal None of runSimulationRound's docstring.
NoSignal == <<"None", 0>>

\* validateInputData(input_data, required_columns=['close'], ...): rejects
\* what is not a DataFrame or lacks a required column, and returns the
\* (sorted, gap-filled) DataFrame otherwise.
validateInputData(input_data) ==
    IF input_data.type # "DataFrame" THEN Raise(TypeError)
    ELSE IF "close" \notin Range(input_data.columns) THEN Raise(ValueError)
    ELSE Ok(input_data)

(***************************************************************************)
(* TradingSimulation.  self is the record of the object's attributes; a    *)
(* method returns the exception it raised (or NoExc) and self as the       *)
(* method left it.                                                         *)
(***************************************************************************)
NoObject == [type |-> "NoObject"]
\* _validateSimulationArguments with `< 0` for `<= 0` in the check of
\* max_items_per_transaction: 0 items are accepted.
_validateSimulationArguments_zero_items(self) ==
    LET cv == validateInputData(self._close_values)
        items == self._max_items_per_transaction
        inv == self._max_investment
    IN IF cv.exc # NoExc
       THEN [exc |-> NotValidInputDataForSimulation, self |-> self]
       ELSE LET self1 == [self EXCEPT !._close_values = cv.value]
            IN IF ~Index_equals(cv.value.index, self._input_data_index)
               THEN [exc |-> NotValidInputDataForSimulation, self |-> self1]
               ELSE IF IsInstanceInt(items) /\ items.v < 0
               THEN [exc |-> WrongValueForInputParameter, self |-> self1]
               ELSE IF ~IsInstanceInt(items)
               THEN [exc |-> WrongTypeForInputParameter, self |-> self1]
               ELSE IF IsInstanceIntFloat(inv) /\ inv.v <= 0
               THEN [exc |-> WrongValueForInputParameter, self |-> self1]
               ELSE IF ~IsInstanceIntFloat(inv) /\ inv # None
               THEN [exc |-> WrongTypeForInputParameter, self |-> self1]
               ELSE [exc |-> NoExc, self |-> self1]

_validateSimulationArguments(self) ==
    LET cv == validateInputData(self._close_values)
        items == self._max_items_per_transaction
        inv == self._max_investment
    IN IF cv.exc # NoExc
       THEN [exc |-> NotValidInputDataForSimulation, self |-> self]
       ELSE LET self1 == [self EXCEPT !._close_values = cv.value]
            IN IF ~Index_equals(cv.value.index, self._input_data_index)
               THEN [exc |-> NotValidInputDataForSimulation, self |-> self1]
               ELSE IF IsInstanceInt(items) /\ items.v <= 0
               THEN [exc |-> WrongValueForInputParameter, self |-> self1]
               ELSE IF ~IsInstanceInt(items)
               THEN [exc |-> WrongTypeForInputParameter, self |-> self1]
               ELSE IF IsInstanceIntFloat(inv) /\ inv.v <= 0
               THEN [exc |-> WrongValueForInputParameter, self |-> self1]
               ELSE IF ~IsInstanceIntFloat(inv) /\ inv # None
               THEN [exc |-> WrongTypeForInputParameter, self |-> self1]
               ELSE [exc |-> NoExc, self |-> self1]

InitialStatistics ==
    [number_of_trading_days |-> Num(0),
     number_of_buy_signals |-> Num(0),
     number_of_ignored_buy_signals |-> Num(0),
     number_of_sell_signals |-> Num(0),
     number_of_ignored_sell_signals |-> Num(0),
     balance |-> Num(0),
     total_stocks_in_long |-> Num(0),
     total_stocks_in_short |-> Num(0),
     stock_value |-> Num(0),
     total_value |-> Num(0)]
\* __init__ with the validation moved behind the allocation of _portfolio,
\* _simulation_data and _statistics.
__init___allocates_first(input_data_index, close_values, max_items_per_transaction, max_investment) ==
    LET self0 == [_input_data_index |-> input_data_index,
                  _close_values |-> close_values,
                  _max_items_per_transaction |-> max_items_per_transaction,
                  _max_investment |-> max_investment]
        v == _validateSimulationArguments(self0)
    IN IF v.exc # NoExc
       THEN [exc |-> v.exc, self |-> NoObject,
             attributes |-> DOMAIN v.self \cup
                 {"_portfolio", "_simulation_data", "_statistics"}]
       ELSE [exc |-> NoExc,
             attributes |-> DOMAIN v.self \cup
                 {"_portfolio", "_simulation_data", "_statistics"},
             self |-> [type |-> "TradingSimulation",
                       _input_data_index |-> v.self._input_data_index,
                       _close_values |-> v.self._close_values,
                       _max_items_per_transaction |->
                           v.self._max_items_per_transaction,
                       _max_investment |-> v.self._max_investment,
                       _portfolio |->
                           DataFrame(input_data_index, PortfolioColumns),
                       _simulation_data |->
                           DataFrame(input_data_index, SimulationColumns),
                       _statistics |-> InitialStatistics]]

\* TradingSimulation(input_data_index, close_values,
\*                   max_items_per_transaction, max_investment).
\* When __init__ raises, the constructor call gives the caller no object;
\* attributes are the attributes __init__ had assigned when it ended.
__init__(input_data_index, close_values, max_items_per_transaction, max_investment) ==
    LET self0 == [_input_data_index |-> input_data_index,
                  _close_values |-> close_values,
                  _max_items_per_transaction |-> max_items_per_transaction,
                  _max_investment |-> max_investment]
        v == _validateSimulationArguments(self0)
    IN IF v.exc # NoExc
       THEN [exc |-> v.exc, self |-> NoObject, attributes |-> DOMAIN v.self]
       ELSE [exc |-> NoExc,
             attributes |-> DOMAIN v.self \cup
                 {"_portfolio", "_simulation_data", "_statistics"},
             self |-> [type |-> "TradingSimulation",
                       _input_data_index |-> v.self._input_data_index,
                       _close_values |-> v.self._close_values,
                       _max_items_per_transaction |->
                           v.self._max_items_per_transaction,
                       _max_investment |-> v.self._max_investment,
                       _portfolio |->
                           DataFrame(input_data_index, PortfolioColumns),
                       _simulation_data |->
                           DataFrame(input_data_index, SimulationColumns),
                       _statistics |-> InitialStatistics]]

\* The masks of _portfolio and _simulation_data that the methods combine.
Column_eq(df, col, text) ==
    LET column == DataFrame_getitem(df, col)
    IN IF column.exc # NoExc THEN column
       ELSE Ok(Series_eq(column.value, Str(text)))

\* df['unit_price'] < price and df['unit_price'] > price, element by element.
Column_lt(df, col, price) ==
    LET column == DataFrame_getitem(df, col)
    IN IF column.exc # NoExc THEN column
       ELSE Ok([k \in DOMAIN column.value |->
                  IsNum(column.value[k]) /\ column.value[k].num < price.num])

Column_gt(df, col, price) ==
    LET column == DataFrame_getitem(df, col)
    IN IF column.exc # NoExc THEN column
       ELSE Ok([k \in DOMAIN column.value |->
                  IsNum(column.value[k]) /\ column.value[k].num > price.num])

\* len(df[mask].index)
Count_rows(df, mask) ==
    IF mask.exc # NoExc THEN mask
    ELSE Ok(Num(Len(DataFrame_select(df, mask.value).index)))

\* sum(df[mask]['items']) and df[mask]['items'].sum()
Sum_items(df, mask) ==
    IF mask.exc # NoExc THEN mask
    ELSE Py_sum(DataFrame_getitem(DataFrame_select(df, mask.value),
                                  "items").value)

Series_sum_items(df, mask) ==
    IF mask.exc # NoExc THEN mask
    ELSE Series_sum(DataFrame_getitem(DataFrame_select(df, mask.value),
                                      "items").value)

\* self._statistics = {...}: the dict is stored when every entry was
\* evaluated, in order.
Store_statistics(self, exc, statistics) ==
    IF exc # NoExc THEN [exc |-> exc, self |-> self]
    ELSE [exc |-> NoExc, self |-> [self EXCEPT !._statistics = statistics]]

Statistics_entries(sim, pf) ==
    <<Ok(Num(Len(sim.index))),
      Count_rows(sim, Column_eq(sim, "signal", "buy")),
      Count_rows(sim, Series_and(Column_eq(sim, "signal", "buy"),
                                 Column_eq(sim, "trading_action", "none"))),
      Count_rows(sim, Column_eq(sim, "signal", "sell")),
      Count_rows(sim, Series_and(Column_eq(sim, "signal", "sell"),
                                 Column_eq(sim, "trading_action", "none"))),
      Series_iat_getitem(DataFrame_getitem(sim, "balance").value, -1),
      Series_sum_items(pf, Series_and(Column_eq(pf, "position", "long"),
                                      Column_eq(pf, "close", "open"))),
      Series_sum_items(pf, Series_and(Column_eq(pf, "position", "short"),
                                      Column_eq(pf, "close", "open"))),
      Series_iat_getitem(DataFrame_getitem(sim, "stock_value").value, -1),
      Series_iat_getitem(DataFrame_getitem(sim, "total_value").value, -1)>>

Statistics_dict(entries) ==
    [number_of_trading_days |-> entries[1].value,
     number_of_buy_signals |-> entries[2].value,
     number_of_ignored_buy_signals |-> entries[3].value,
     number_of_sell_signals |-> entries[4].value,
     number_of_ignored_sell_signals |-> entries[5].value,
     balance |-> entries[6].value,
     total_stocks_in_long |-> entries[7].value,
     total_stocks_in_short |-> entries[8].value,
     stock_value |-> entries[9].value,
     total_value |-> entries[10].value]

Calculate_statistics(self, entries) ==
    Store_statistics(self, FirstExc(entries), Statistics_dict(entries))

_calculateSimulationStatistics(self) ==
    Calculate_statistics(
        self, Statistics_entries(self._simulation_data, self._portfolio))

(***************************************************************************)
(* A method body runs on a frame: self, the exception raised so far (a     *)
(* statement after a raise does nothing), the locals value and quantity,   *)
(* and pandas' copy-on-write mode.  Python evaluates the right-hand side   *)
(* of an assignment, left to right, before it performs the store.          *)
(***************************************************************************)
Frame(self, cow) ==
    [self |-> self, exc |-> NoExc, value |-> NaN, quantity |-> NaN,
     cow |-> cow]

\* self._simulation_data['balance'].iat[i] and self._close_values.iat[i]
Balance_at(f, i) ==
    Series_iat_getitem(DataFrame_getitem(f.self._simulation_data, "balance").value, i)

Close_at(f, i) == DataFrame_iat_getitem(f.self._close_values, i)

\* self._portfolio[mask]['status'] = 'close': df[mask] is a new DataFrame,
\* the assignment sets the column of that temporary and self._portfolio
\* keeps every status.
Portfolio_close(f, mask) ==
    IF f.exc # NoExc THEN f
    ELSE IF mask.exc # NoExc THEN [f EXCEPT !.exc = mask.exc]
    ELSE f

\* The masks of lines 292-297 (force_all) and 313-320.
Long_mask(pf, price, force_all) ==
    IF force_all
    THEN Series_and(Column_eq(pf, "status", "open"),
                    Column_eq(pf, "position", "long"))
    ELSE Series_and(Series_and(Column_eq(pf, "status", "open"),
                               Column_eq(pf, "position", "long")),
                    Column_lt(pf, "unit_price", price))

Short_mask(pf, price, force_all) ==
    IF force_all
    THEN Series_and(Column_eq(pf, "status", "open"),
                    Column_eq(pf, "position", "short"))
    ELSE Series_and(Series_and(Column_eq(pf, "status", "open"),
                               Column_eq(pf, "position", "short")),
                    Column_gt(pf, "unit_price", price))

\* value = (total_long_items - total_short_items) * price
Set_value(f, value) ==
    IF value.exc # NoExc THEN [f EXCEPT !.exc = value.exc]
    ELSE [f EXCEPT !.value = value.value]

\* Register close action (lines 303-305 and 326-335).
Register_close(f, price, force_all, write) ==
    IF f.exc # NoExc \/ ~write THEN f
    ELSE IF force_all
    THEN Portfolio_close(f, Column_eq(f.self._portfolio, "status", "open"))
    ELSE Portfolio_close(
             Portfolio_close(f, Long_mask(f.self._portfolio, price, FALSE)),
             Short_mask(f.self._portfolio, price, FALSE))

\* value = self._closeOpenPositions(price=..., force_all=..., write=...):
\* the frame with the returned value in its local value.
_closeOpenPositions(f, price, force_all, write) ==
    IF f.exc # NoExc THEN f
    ELSE IF price.exc # NoExc THEN [f EXCEPT !.exc = price.exc]
    ELSE Register_close(
             Set_value(f, Py_mul(
                 Py_sub(Sum_items(f.self._portfolio,
                                  Long_mask(f.self._portfolio, price.value,
                                            force_all)),
                        Sum_items(f.self._portfolio,
                                  Short_mask(f.self._portfolio, price.value,
                                             force_all))),
                 price)),
             price.value, force_all, write)

\* self._portfolio.iat[i_index] = [position, items, unit_price, status]
Store_portfolio_row(f, i_index, exc, row) ==
    IF exc # NoExc THEN [f EXCEPT !.exc = exc]
    ELSE [f EXCEPT !.exc = row.exc, !.self._portfolio = row.df]

Set_portfolio_row(f, i_index, position, items, unit_price, status) ==
    IF f.exc # NoExc THEN f
    ELSE Store_portfolio_row(
             f, i_index, FirstExc(<<position, items, unit_price, status>>),
             DataFrame_iat_setitem(
                 f.self._portfolio, i_index,
                 [position |-> position.value, items |-> items.value,
                  unit_price |-> unit_price.value, status |-> status.value]))

\* self._simulation_data.iat[i_index] = [signal, trading_action, ...]
Store_simulation_row(f, i_index, exc, row) ==
    IF exc # NoExc THEN [f EXCEPT !.exc = exc]
    ELSE [f EXCEPT !.exc = row.exc, !.self._simulation_data = row.df]

Set_simulation_row(f, i_index, row) ==
    IF f.exc # NoExc THEN f
    ELSE Store_simulation_row(
             f, i_index, FirstExc(row),
             DataFrame_iat_setitem(
                 f.self._simulation_data, i_index,
                 [signal |-> row[1].value, trading_action |-> row[2].value,
                  stocks_in_transaction |-> row[3].value,
                  balance |-> row[4].value, stock_value |-> row[5].value,
                  total_value |-> row[6].value]))

\* self._simulation_data['total_value'].iat[i_index] = value: a store into
\* the Series that df['total_value'] returned.  It reaches the DataFrame
\* when that Series shares the DataFrame's memory and is lost under pandas'
\* copy-on-write mode.
Set_total_value(f, i_index, value) ==
    IF f.exc # NoExc THEN f
    ELSE IF value.exc # NoExc THEN [f EXCEPT !.exc = value.exc]
    ELSE IF f.cow THEN f
    ELSE [f EXCEPT !.self._simulation_data.data[i_index + 1].total_value
                       = value.value]

\* The simulation row of a day without a transaction (lines 356-360,
\* 387-391 and 448-452).
Set_no_action_row(f, i_index, signal) ==
    IF f.exc # NoExc THEN f
    ELSE Set_simulation_row(
             f, i_index,
             <<Ok(Str(signal)), Ok(Str("none")), Ok(Num(0)),
               Balance_at(f, i_index - 1), Close_at(f, i_index),
               Py_add(Balance_at(f, i_index - 1), Ok(f.value))>>)

\* A day without a transaction (lines 350-360, 379-391 and 440-452): the
\* portfolio row, the value of all the open positions, the simulation row.
Record_no_action(f, i_index, signal) ==
    Set_no_action_row(
        _closeOpenPositions(
            Set_portfolio_row(f, i_index, Ok(Str("none")), Ok(Num(0)),
                              Ok(Num(0)), Ok(Str("none"))),
            Close_at(f, i_index), TRUE, FALSE),
        i_index, signal)

_processHoldSignal(f, i_index) == Record_no_action(f, i_index, "hold")

\* Not enough balance for proceeding with the signal (lines 373-376 and
\* 434-437): the balance read is the one of row i_index.
Not_enough_balance(f, i_index) ==
    IF f.self._max_investment = None THEN Ok(FALSE)
    ELSE Py_lt0(Py_add(Py_sub(Balance_at(f, i_index), Close_at(f, i_index)),
                       Ok(Num(f.self._max_investment.v))))

\* quantity = ...
Store_quantity(f, quantity) ==
    IF quantity.exc # NoExc THEN [f EXCEPT !.exc = quantity.exc]
    ELSE [f EXCEPT !.quantity = quantity.value]

\* min(self._max_items_per_transaction, q)
Min_items(f, q) ==
    IF q.exc # NoExc THEN q
    ELSE Ok(Num(Py_min(f.self._max_items_per_transaction.v, q.value.num)))

\* min(self._max_items_per_transaction,
\*     int((balance - self._max_investment) / close))
\* for the outcomes balance and close of its two reads (lines 398-402 and
\* 459-463).
Quantity(f, balance, close) ==
    Min_items(f, Py_int_div(Py_sub(balance, Ok(Num(f.self._max_investment.v))),
                            close))

\* Calculate number of stocks to be used in position (lines 397-404 and
\* 458-465).
Set_quantity(f, i_index) ==
    IF f.exc # NoExc THEN f
    ELSE IF f.self._max_investment # None
    THEN Store_quantity(
             f, Quantity(f, Balance_at(f, i_index - 1), Close_at(f, i_index)))
    ELSE Store_quantity(f, Ok(Num(f.self._max_items_per_transaction.v)))

\* Lines 406-407: the portfolio row of an opened long position.
Set_open_long_position(f, i_index) ==
    IF f.exc # NoExc THEN f
    ELSE Set_portfolio_row(f, i_index, Ok(Str("long")), Ok(f.quantity),
                           Close_at(f, i_index), Ok(Str("open")))

\* Lines 409-413: the simulation row of an opened long position.
Set_open_long_row(f, i_index) ==
    IF f.exc # NoExc THEN f
    ELSE Set_simulation_row(
             f, i_index,
             <<Ok(Str("buy")), Ok(Str("open_long")), Ok(f.quantity),
               Py_sub(Balance_at(f, i_index - 1),
                      Py_mul(Ok(f.quantity), Close_at(f, i_index))),
               Close_at(f, i_index), Ok(Str("N/A"))>>)

\* Lines 420-421: total_value = balance + value, this transaction included.
Set_open_long_total_value(f, i_index) ==
    IF f.exc # NoExc THEN f
    ELSE Set_total_value(f, i_index,
                         Py_add(Balance_at(f, i_index), Ok(f.value)))

\* Enough balance, proceed with opening a `long` position.
Open_long(f, i_index) ==
    Set_open_long_total_value(
        _closeOpenPositions(
            Set_open_long_row(
                Set_open_long_position(Set_quantity(f, i_index), i_index),
                i_index),
            Close_at(f, i_index), TRUE, FALSE),
        i_index)

\* if not enough balance: ... else: ...
_processBuySignal_branch(f, i_index, gate) ==
    IF gate.exc # NoExc THEN [f EXCEPT !.exc = gate.exc]
    ELSE IF gate.value THEN Record_no_action(f, i_index, "buy")
    ELSE Open_long(f, i_index)

_processBuySignal(f, i_index) ==
    _processBuySignal_branch(f, i_index, Not_enough_balance(f, i_index))

\* Lines 467-468: the portfolio row of an opened short position.
Set_open_short_position(f, i_index) ==
    IF f.exc # NoExc THEN f
    ELSE Set_portfolio_row(f, i_index, Ok(Str("short")), Ok(f.quantity),
                           Close_at(f, i_index), Ok(Str("open")))

\* Lines 470-474: the simulation row of an opened short position.
Set_open_short_row(f, i_index) ==
    IF f.exc # NoExc THEN f
    ELSE Set_simulation_row(
             f, i_index,
             <<Ok(Str("sell")), Ok(Str("open_short")), Ok(f.quantity),
               Py_add(Balance_at(f, i_index - 1),
                      Py_mul(Ok(f.quantity), Close_at(f, i_index))),
               Close_at(f, i_index), Ok(Str("N/A"))>>)

\* Lines 481-482: total_value = balance + value, this transaction included.
Set_open_short_total_value(f, i_index) ==
    IF f.exc # NoExc THEN f
    ELSE Set_total_value(f, i_index,
                         Py_add(Balance_at(f, i_index), Ok(f.value)))

\* Enough balance, proceed with opening a `short` position.
Open_short(f, i_index) ==
    Set_open_short_total_value(
        _closeOpenPositions(
            Set_open_short_row(
                Set_open_short_position(Set_quantity(f, i_index), i_index),
                i_index),
            Close_at(f, i_index), TRUE, FALSE),
        i_index)

\* if not enough balance: ... else: ...
_processSellSignal_branch(f, i_index, gate) ==
    IF gate.exc # NoExc THEN [f EXCEPT !.exc = gate.exc]
    ELSE IF gate.value THEN Record_no_action(f, i_index, "sell")
    ELSE Open_short(f, i_index)

_processSellSignal(f, i_index) ==
    _processSellSignal_branch(f, i_index, Not_enough_balance(f, i_index))

\* Just initializations at the first day (lines 498-501).
First_day(f) ==
    Set_portfolio_row(
        Set_simulation_row(f, 0, <<Ok(Str("hold")), Ok(Str("none")), Ok(Num(0)),
                                   Ok(Num(0)), Ok(Num(0)), Ok(Num(0))>>),
        0, Ok(Str("none")), Ok(Num(0)), Ok(Num(0)), Ok(Str("none")))

runSimulationRound(f, i_index, signal) ==
    IF i_index = 0 THEN First_day(f)
    ELSE IF signal = TRADE_SIGNALS.buy THEN _processBuySignal(f, i_index)
    ELSE IF signal = TRADE_SIGNALS.sell THEN _processSellSignal(f, i_index)
    ELSE _processHoldSignal(f, i_index)

\* return self._simulation_data, self._statistics
Return_simulation(c) ==
    IF c.exc # NoExc THEN [exc |-> c.exc, self |-> c.self, value |-> None]
    ELSE [exc |-> NoExc, self |-> c.self,
          value |-> <<c.self._simulation_data, c.self._statistics>>]

closeSimulation(self) == Return_simulation(_calculateSimulationStatistics(self))

(***************************************************************************)
(* The caller.  It constructs one TradingSimulation, calls                 *)
(* runSimulationRound for the days 0, 1, ... in order with a signal of its *)
(* choice, and may call closeSimulation at any point.  A call that raises  *)
(* leaves the object as the method left it.                                *)
(***************************************************************************)
VARIABLES
    args,           \* the arguments of the constructor call
    copy_on_write,  \* pandas' copy-on-write mode in this run
    self,           \* the TradingSimulation, NoObject before and without one
    call,           \* the latest call: its method, i_index and signal
    raised,         \* the exception the latest call raised, NoExc if none
    day,            \* the number of runSimulationRound calls made
    returned,       \* what the latest closeSimulation returned, None if nothing
    attributes,     \* the attributes __init__ had assigned when it ended
    quantity,       \* the latest evaluation of the quantity expression alone
    valuation       \* the latest direct call of _closeOpenPositions

vars ==
    <<args, copy_on_write, self, call, raised, day, returned, attributes,
      quantity, valuation>>

Prices == {90, 100, 110}
Investments == {None, PyInt(50), PyFloat(250)}
Signals == {TRADE_SIGNALS.hold, TRADE_SIGNALS.buy, TRADE_SIGNALS.sell, NoSignal}

Index == [k \in 1..NumDays |-> k]

\* A close_values DataFrame over the given index.
CloseValues(index, close) ==
    [type |-> "DataFrame", index |-> index, columns |-> <<"close">>,
     data |-> [k \in DOMAIN index |-> [c \in {"close"} |-> Num(close[k])]]]

\* The price series of the documented scenario, cut or padded to NumDays.
ScenarioPrices ==
    [k \in 1..NumDays |-> IF k = 3 THEN 110 ELSE IF k = 4 THEN 90 ELSE 100]

ValidArgs ==
    {[input_data_index |-> Index, close_values |-> CloseValues(Index, close),
      max_items_per_transaction |-> PyInt(items), max_investment |-> inv] :
        close \in [1..NumDays -> Prices], items \in 1..MaxItems,
        inv \in Investments}

InvalidArgs ==
    {[input_data_index |-> Index, close_values |-> cv,
      max_items_per_transaction |-> items, max_investment |-> inv] :
        cv \in {CloseValues(Index, ScenarioPrices), PyStr("NO_DF"),
                [CloseValues(Index, ScenarioPrices) EXCEPT !.columns = <<"open">>],
                CloseValues([k \in 1..(NumDays + 1) |-> k - 1],
                            [k \in 1..(NumDays + 1) |-> 100])},
        items \in {PyInt(1), PyInt(0), PyInt(-1), PyStr("1"), PyFloat(1)},
        inv \in {None, PyInt(50), PyInt(0), PyFloat(-1), PyStr("50")}}

NoCall == [op |-> "none", i_index |-> -1, signal |-> NoSignal]
NoQuantity == [i_index |-> -1]
NoValuation == [price |-> -1]

Init ==
    /\ args \in ValidArgs \cup InvalidArgs
    /\ copy_on_write \in BOOLEAN
    /\ self = NoObject
    /\ call = NoCall
    /\ raised = NoExc
    /\ day = 0
    /\ returned = None
    /\ attributes = {}
    /\ quantity = NoQuantity
    /\ valuation = NoValuation

Construct ==
    /\ call = NoCall
    /\ LET r == __init__(args.input_data_index, args.close_values,
                         args.max_items_per_transaction, args.max_investment)
       IN /\ self' = r.self
          /\ raised' = r.exc
          /\ attributes' = r.attributes
    /\ call' = [op |-> "__init__", i_index |-> -1, signal |-> NoSignal]
    /\ UNCHANGED <<args, copy_on_write, day, returned, quantity, valuation>>

RunSimulationRound ==
    /\ self # NoObject
    /\ day < NumDays
    /\ \E signal \in Signals :
        LET r == runSimulationRound(Frame(self, copy_on_write), day, signal)
        IN /\ self' = r.self
           /\ raised' = r.exc
           /\ call' = [op |-> "runSimulationRound", i_index |-> day,
                       signal |-> signal]
    /\ day' = day + 1
    /\ UNCHANGED <<args, copy_on_write, returned, attributes, quantity,
                   valuation>>

CloseSimulation ==
    /\ self # NoObject
    /\ LET r == closeSimulation(self)
       IN /\ self' = r.self
          /\ raised' = r.exc
          /\ returned' = r.value
    /\ call' = [op |-> "closeSimulation", i_index |-> -1, signal |-> NoSignal]
    /\ UNCHANGED <<args, copy_on_write, day, attributes, quantity, valuation>>

Next == Construct \/ RunSimulationRound \/ CloseSimulation

Spec == Init /\ [][Next]_vars

(***************************************************************************)
(* The quantity expression as a function of its operands.  On a            *)
(* constructed object with max_investment set it is evaluated for a day    *)
(* i_index > 0 with the close price of that day and a balance of the day   *)
(* before drawn from Balances.                                             *)
(***************************************************************************)
Balances == {-100, 0, 10, 200, 300}

ComputeQuantity ==
    /\ self # NoObject
    /\ self._max_investment # None
    /\ quantity = NoQuantity
    /\ \E i_index \in 1..(NumDays - 1), balance \in Balances :
        quantity' =
            [i_index |-> i_index, balance |-> balance,
             result |-> Quantity(Frame(self, copy_on_write), Ok(Num(balance)),
                                 Ok(self._close_values.data[i_index + 1].close))]
    /\ UNCHANGED <<args, copy_on_write, self, call, raised, day, returned,
                   attributes, valuation>>

NextQuantity == Construct \/ ComputeQuantity

SpecQuantity == Init /\ [][NextQuantity]_vars

(***************************************************************************)
(* _closeOpenPositions called directly on a constructed object, with a     *)
(* price of Prices and either value of force_all and of write.  valuation  *)
(* keeps the arguments, the portfolio before the call and the outcome: the *)
(* returned value, or the exception raised.                                *)
(***************************************************************************)
Valuation_outcome(f) ==
    IF f.exc # NoExc THEN Raise(f.exc) ELSE Ok(f.value)

CloseOpenPositions ==
    /\ self # NoObject
    /\ valuation = NoValuation
    /\ \E price \in Prices, force_all \in BOOLEAN, write \in BOOLEAN :
        LET f == _closeOpenPositions(Frame(self, copy_on_write),
                                     Ok(Num(price)), force_all, write)
        IN /\ self' = f.self
           /\ valuation' =
                  [price |-> price, force_all |-> force_all, write |-> write,
                   portfolio |-> self._portfolio,
                   result |-> Valuation_outcome(f)]
    /\ UNCHANGED <<args, copy_on_write, call, raised, day, returned,
                   attributes, quantity>>

NextClose == Construct \/ RunSimulationRound \/ CloseOpenPositions

SpecClose == Init /\ [][NextClose]_vars

(***************************************************************************)
(* Properties.                                                             *)
(***************************************************************************)
\* Row i_index of the simulation data and of the portfolio, and the close
\* price of that day.
SimRow(i_index) == self._simulation_data.data[i_index + 1]
PfRow(i_index) == self._portfolio.data[i_index + 1]
PriceOf(i_index) == self._close_values.data[i_index + 1].close.num

AfterRound == call.op = "runSimulationRound"
AfterClose == call.op = "closeSimulation"
Limited == self._max_investment # None

\* C1: after runSimulationRound(0, signal), for every signal, row 0 of the
\* simulation data has balance 0, total value 0, action none, 0 stocks in
\* the transaction and signal hold, and row 0 of the portfolio is the none
\* position (position none, 0 items, status none).
C1_Day0Bootstrap ==
    (AfterRound /\ call.i_index = 0) =>
        /\ SimRow(0).balance = Num(0)
        /\ SimRow(0).total_value = Num(0)
        /\ SimRow(0).trading_action = Str("none")
        /\ SimRow(0).stocks_in_transaction = Num(0)
        /\ SimRow(0).signal = Str("hold")
        /\ PfRow(0).position = Str("none")
        /\ PfRow(0).items = Num(0)
        /\ PfRow(0).status = Str("none")

\* C2: on a day i > 0 with max_investment set and
\* balance[i-1] - price[i] + max_investment < 0, a buy and a sell are both
\* ignored: action none, 0 stocks, balance[i] = balance[i-1], portfolio row
\* i the none position.  In particular with the scenario's prices,
\* max_investment 50 and a buy on day 1: action none and balance 0.
C2_AffordabilityGate ==
    /\ (/\ AfterRound /\ call.i_index > 0 /\ Limited
        /\ call.signal \in {TRADE_SIGNALS.buy, TRADE_SIGNALS.sell}
        /\ IsNum(SimRow(call.i_index - 1).balance)
        /\ SimRow(call.i_index - 1).balance.num - PriceOf(call.i_index)
               + self._max_investment.v < 0)
       => /\ SimRow(call.i_index).trading_action = Str("none")
          /\ SimRow(call.i_index).stocks_in_transaction = Num(0)
          /\ SimRow(call.i_index).balance = SimRow(call.i_index - 1).balance
          /\ PfRow(call.i_index).position = Str("none")
    /\ (/\ AfterRound /\ call.i_index = 1 /\ call.signal = TRADE_SIGNALS.buy
        /\ self._max_investment = PyInt(50)
        /\ \A k \in 1..NumDays : PriceOf(k - 1) = ScenarioPrices[k])
       => /\ SimRow(1).trading_action = Str("none")
          /\ SimRow(1).balance = Num(0)

\* C5: with max_investment None, on a day i > 0 every buy gives the action
\* open_long and every sell the action open_short, each with exactly
\* max_items_per_transaction stocks.
C5_UnlimitedMode ==
    (AfterRound /\ call.i_index > 0 /\ ~Limited) =>
        /\ call.signal = TRADE_SIGNALS.buy =>
            /\ SimRow(call.i_index).trading_action = Str("open_long")
            /\ SimRow(call.i_index).stocks_in_transaction
                   = Num(self._max_items_per_transaction.v)
        /\ call.signal = TRADE_SIGNALS.sell =>
            /\ SimRow(call.i_index).trading_action = Str("open_short")
            /\ SimRow(call.i_index).stocks_in_transaction
                   = Num(self._max_items_per_transaction.v)

\* C7: on a constructed simulation every runSimulationRound(i, signal),
\* called for the days in order, returns without raising and leaves row i
\* of the simulation data and of the portfolio written.
C7_EveryDayProcessable ==
    AfterRound =>
        /\ raised = NoExc
        /\ \A c \in Range(SimulationColumns) : ~IsNaN(SimRow(call.i_index)[c])
        /\ \A c \in Range(PortfolioColumns) : ~IsNaN(PfRow(call.i_index)[c])

\* C8: closeSimulation after all the days leaves statistics with
\* number_of_trading_days = n = the number of rows, balance = balance[n-1],
\* total_value = total_value[n-1] and stock_value = stock_value[n-1].
C8_StatisticsConsistency ==
    (AfterClose /\ day = NumDays) =>
        /\ self._statistics.number_of_trading_days = Num(NumDays)
        /\ Len(self._simulation_data.data) = NumDays
        /\ self._statistics.balance = SimRow(NumDays - 1).balance
        /\ self._statistics.total_value = SimRow(NumDays - 1).total_value
        /\ self._statistics.stock_value = SimRow(NumDays - 1).stock_value

\* C9: when all the days are processed and the simulation is closed, no
\* cell of the simulation data is undefined and every total_value is a
\* number (not null, not the placeholder 'N/A').
C9_NoUndefinedCells ==
    (AfterClose /\ day = NumDays) =>
        \A i \in 0..(NumDays - 1) :
            /\ \A c \in Range(SimulationColumns) : ~IsNaN(SimRow(i)[c])
            /\ IsNum(SimRow(i).total_value)

\* The number of processed rows 0..k whose signal is the given one.
SignalCount(k, signal) ==
    Cardinality({i \in 0..k : SimRow(i).signal = Str(signal)})

\* C10: closeSimulation after only the days 0..k, k < n-1, is not an error
\* and gives the statistics of the processed prefix: k+1 trading days, the
\* balance and total value of row k, the signal counts of rows 0..k.
C10_PartialRunClose ==
    (AfterClose /\ day > 0 /\ day < NumDays) =>
        /\ raised = NoExc
        /\ self._statistics.number_of_trading_days = Num(day)
        /\ self._statistics.balance = SimRow(day - 1).balance
        /\ self._statistics.total_value = SimRow(day - 1).total_value
        /\ self._statistics.number_of_buy_signals
               = Num(SignalCount(day - 1, "buy"))
        /\ self._statistics.number_of_sell_signals
               = Num(SignalCount(day - 1, "sell"))

AfterInit == call.op = "__init__"

\* The close_values argument is a DataFrame with a close column over the
\* index of the trading period.
ValidCloseValues ==
    /\ args.close_values.type = "DataFrame"
    /\ "close" \in Range(args.close_values.columns)
    /\ args.close_values.index = args.input_data_index

\* C11: with valid close values, the construction raises the value error
\* when max_items_per_transaction is an int <= 0 and the type error when it
\* is not an int; with a positive int max_items_per_transaction it raises
\* the value error when max_investment is an int or float <= 0, the type
\* error when max_investment is neither an int, a float nor None, and it
\* returns an object when max_investment is None or a positive number.
C11_ConstructionParameterErrors ==
    (AfterInit /\ ValidCloseValues) =>
        LET items == args.max_items_per_transaction
            inv == args.max_investment
        IN /\ (items.type = "int" /\ items.v <= 0)
                  => raised = WrongValueForInputParameter
           /\ items.type # "int" => raised = WrongTypeForInputParameter
           /\ (items.type = "int" /\ items.v > 0) =>
               /\ (inv.type \in {"int", "float"} /\ inv.v <= 0)
                      => raised = WrongValueForInputParameter
               /\ inv.type \notin {"int", "float", "NoneType"}
                      => raised = WrongTypeForInputParameter
               /\ (inv.type = "NoneType"
                   \/ (inv.type \in {"int", "float"} /\ inv.v > 0))
                      => (raised = NoExc /\ self # NoObject)

\* A construction with a good max_items_per_transaction and a max_investment
\* of a wrong type has raised the type error.
C11_Witness ==
    /\ AfterInit /\ ValidCloseValues
    /\ args.max_items_per_transaction = PyInt(1)
    /\ args.max_investment = PyStr("50")
    /\ raised = WrongTypeForInputParameter
    /\ self = NoObject

\* The attributes that hold the state of a simulation.
SimulationState == {"_portfolio", "_simulation_data", "_statistics"}

\* C12: a construction that raises (close values that are no DataFrame or
\* lack the close column, an index that differs from the index of the
\* trading period, a bad parameter) raises before _portfolio,
\* _simulation_data and _statistics are assigned and gives no object; and
\* without an object no day is ever processed and nothing is returned.
C12_FailFastConstruction ==
    /\ (AfterInit /\ ~ValidCloseValues)
           => raised = NotValidInputDataForSimulation
    /\ (AfterInit /\ raised # NoExc) =>
           /\ self = NoObject
           /\ attributes \cap SimulationState = {}
    /\ self = NoObject =>
           /\ day = 0
           /\ returned = None
           /\ call.op \in {"none", "__init__"}

\* A construction whose close values have another index than the trading
\* period has raised, with only the four arguments assigned.
C12_Witness ==
    /\ AfterInit
    /\ args.close_values.type = "DataFrame"
    /\ args.close_values.index # args.input_data_index
    /\ raised = NotValidInputDataForSimulation
    /\ self = NoObject
    /\ attributes = {"_input_data_index", "_close_values",
                     "_max_items_per_transaction", "_max_investment"}

\* The object of the documented scenario: its prices, one item per
\* transaction, no max_investment.
ScenarioObject ==
    /\ self # NoObject
    /\ \A k \in 1..NumDays : PriceOf(k - 1) = ScenarioPrices[k]
    /\ self._max_items_per_transaction = PyInt(1)
    /\ self._max_investment = None

\* C13: in the scenario (prices 100, 100, 110, 90; signals hold, buy, sell,
\* hold; 1 item; no max_investment) day 1 opens a long position of 1 item
\* at 100 with balance -100, day 2 opens a short position of 1 item at 110
\* with the long one still open and balance 10, and day 3 has action none,
\* balance 10 and total value 10.
C13_ConcreteScenario ==
    /\ (/\ ScenarioObject /\ AfterRound /\ call.i_index = 1
        /\ call.signal = TRADE_SIGNALS.buy)
       => /\ SimRow(1).trading_action = Str("open_long")
          /\ SimRow(1).stocks_in_transaction = Num(1)
          /\ SimRow(1).balance = Num(-100)
          /\ PfRow(1) = [position |-> Str("long"), items |-> Num(1),
                         unit_price |-> Num(100), status |-> Str("open")]
    /\ (/\ ScenarioObject /\ AfterRound /\ call.i_index = 2
        /\ call.signal = TRADE_SIGNALS.sell
        /\ SimRow(1).signal = Str("buy"))
       => /\ SimRow(2).trading_action = Str("open_short")
          /\ SimRow(2).balance = Num(10)
          /\ PfRow(2) = [position |-> Str("short"), items |-> Num(1),
                         unit_price |-> Num(110), status |-> Str("open")]
          /\ PfRow(1).status = Str("open")
    /\ (/\ ScenarioObject /\ AfterRound /\ call.i_index = 3
        /\ call.signal = TRADE_SIGNALS.hold
        /\ SimRow(1).signal = Str("buy") /\ SimRow(2).signal = Str("sell"))
       => /\ SimRow(3).trading_action = Str("none")
          /\ SimRow(3).balance = Num(10)
          /\ SimRow(3).total_value = Num(10)

\* The number of rows of the simulation data with the given signal and the
\* trading action none.
Rows_ignored(signal) ==
    Cardinality({i \in 0..(NumDays - 1) :
                    /\ SimRow(i).signal = Str(signal)
                    /\ SimRow(i).trading_action = Str("none")})

\* C14: closeSimulation returns statistics in which
\* number_of_ignored_buy_signals is the number of rows with signal buy and
\* action none and number_of_ignored_sell_signals the number of rows with
\* signal sell and action none, each at most the number of buy (sell)
\* signals, and both 0 when max_investment is None.
C14_IgnoredSignalCounts ==
    AfterClose =>
        /\ returned # None
        /\ returned[2].number_of_ignored_buy_signals
               = Num(Rows_ignored("buy"))
        /\ returned[2].number_of_ignored_sell_signals
               = Num(Rows_ignored("sell"))
        /\ returned[2].number_of_ignored_buy_signals.num
               <= returned[2].number_of_buy_signals.num
        /\ returned[2].number_of_ignored_sell_signals.num
               <= returned[2].number_of_sell_signals.num
        /\ ~Limited =>
               /\ returned[2].number_of_ignored_buy_signals = Num(0)
               /\ returned[2].number_of_ignored_sell_signals = Num(0)

\* The items of the portfolio rows that hold an open position of the given
\* kind.
Open_items(position) ==
    Series_sum_from(
        [k \in 1..NumDays |->
            IF PfRow(k - 1).position = Str(position)
               /\ PfRow(k - 1).status = Str("open")
            THEN PfRow(k - 1).items ELSE NaN], 1)

\* C15: closeSimulation returns statistics in which total_stocks_in_long is
\* the sum of the items of the portfolio rows with position long and status
\* open, and total_stocks_in_short the same sum for position short.
C15_OpenPositionTotals ==
    AfterClose =>
        /\ returned # None
        /\ returned[2].total_stocks_in_long = Num(Open_items("long"))
        /\ returned[2].total_stocks_in_short = Num(Open_items("short"))

\* C17: after runSimulationRound(0, signal) row 0 of the simulation data
\* has the stock value price[0], the close price of the first day.
C17_Day0MarkPrice ==
    (AfterRound /\ call.i_index = 0) =>
        SimRow(0).stock_value = Num(PriceOf(0))

\* A buy or a sell with max_investment None is admitted with the quantity
\* max_items_per_transaction (lines 403-404 and 464-465).
Admitted(signal) ==
    /\ AfterRound /\ call.i_index > 0 /\ ~Limited
    /\ call.signal = signal

\* C18: a buy admitted on day i > 0 with quantity q makes portfolio row i
\* the open long position of q items at price[i], and simulation row i
\* signal buy, action open_long, q stocks, stock value price[i] and
\* balance[i] = balance[i-1] - q * price[i].
C18_AdmittedBuy ==
    Admitted(TRADE_SIGNALS.buy) =>
        LET i == call.i_index
            q == self._max_items_per_transaction.v
        IN /\ PfRow(i) = [position |-> Str("long"), items |-> Num(q),
                          unit_price |-> Num(PriceOf(i)),
                          status |-> Str("open")]
           /\ SimRow(i).signal = Str("buy")
           /\ SimRow(i).trading_action = Str("open_long")
           /\ SimRow(i).stocks_in_transaction = Num(q)
           /\ SimRow(i).stock_value = Num(PriceOf(i))
           /\ IsNum(SimRow(i - 1).balance)
           /\ SimRow(i).balance
                  = Num(SimRow(i - 1).balance.num - q * PriceOf(i))

\* C19: a sell admitted on day i > 0 with quantity q makes portfolio row i
\* the open short position of q items at price[i], and simulation row i
\* signal sell, action open_short, q stocks and
\* balance[i] = balance[i-1] + q * price[i].
C19_AdmittedSell ==
    Admitted(TRADE_SIGNALS.sell) =>
        LET i == call.i_index
            q == self._max_items_per_transaction.v
        IN /\ PfRow(i) = [position |-> Str("short"), items |-> Num(q),
                          unit_price |-> Num(PriceOf(i)),
                          status |-> Str("open")]
           /\ SimRow(i).signal = Str("sell")
           /\ SimRow(i).trading_action = Str("open_short")
           /\ SimRow(i).stocks_in_transaction = Num(q)
           /\ IsNum(SimRow(i - 1).balance)
           /\ SimRow(i).balance
                  = Num(SimRow(i - 1).balance.num + q * PriceOf(i))

Open_items_upto(position, i_index) ==
    Series_sum_from(
        [k \in 1..(i_index + 1) |->
            IF PfRow(k - 1).position = Str(position)
               /\ PfRow(k - 1).status = Str("open")
            THEN PfRow(k - 1).items ELSE NaN], 1)

\* C21: after runSimulationRound(i, signal) for a day i > 0, whatever the
\* signal and its outcome, total_value[i] = balance[i] + (L - S) * price[i]
\* with L and S the items of the open long and open short positions of the
\* portfolio rows 0..i.
C21_TotalValueIdentity ==
    (AfterRound /\ call.i_index > 0) =>
        LET i == call.i_index
        IN /\ IsNum(SimRow(i).balance)
           /\ SimRow(i).total_value
                  = Num(SimRow(i).balance.num
                        + (Open_items_upto("long", i)
                           - Open_items_upto("short", i)) * PriceOf(i))

\* The portfolio row of a day without a position.
NonePosition ==
    [position |-> Str("none"), items |-> Num(0), unit_price |-> Num(0),
     status |-> Str("none")]

Valued_items(portfolio, position, unit_prices) ==
    Series_sum_from(
        [k \in DOMAIN portfolio.data |->
            IF /\ portfolio.data[k].position = Str(position)
               /\ portfolio.data[k].status = Str("open")
               /\ IsNum(portfolio.data[k].unit_price)
               /\ portfolio.data[k].unit_price.num \in unit_prices
            THEN portfolio.data[k].items ELSE NaN], 1)

\* C25: _closeOpenPositions(price, force_all=True, write=True) returns
\* (open long items - open short items) * price and leaves no position with
\* status open (so that the same valuation right after it gives 0).
C25_CommittingFullLiquidation ==
    (valuation # NoValuation /\ valuation.force_all /\ valuation.write) =>
        /\ valuation.result =
               Ok(Num((Valued_items(valuation.portfolio, "long", Int)
                       - Valued_items(valuation.portfolio, "short", Int))
                      * valuation.price))
        /\ \A i \in 0..(NumDays - 1) : PfRow(i).status # Str("open")

\* C26: _closeOpenPositions(price, force_all=False) returns (items of the
\* open long positions with unit price < price - items of the open short
\* positions with unit price > price) * price; with write=True exactly
\* those positions get the status close and every other row keeps its
\* status, and with write=False every row keeps it.
C26_ProfitableOnlyLiquidation ==
    (valuation # NoValuation /\ ~valuation.force_all) =>
        LET before == valuation.portfolio.data
            lower == {p \in Prices : p < valuation.price}
            higher == {p \in Prices : p > valuation.price}
            profitable(k) ==
                /\ before[k].status = Str("open")
                /\ IsNum(before[k].unit_price)
                /\ \/ /\ before[k].position = Str("long")
                      /\ before[k].unit_price.num < valuation.price
                   \/ /\ before[k].position = Str("short")
                      /\ before[k].unit_price.num > valuation.price
        IN /\ valuation.result =
                  Ok(Num((Valued_items(valuation.portfolio, "long", lower)
                          - Valued_items(valuation.portfolio, "short", higher))
                         * valuation.price))
           /\ \A k \in DOMAIN before :
                  PfRow(k - 1).status =
                      IF valuation.write /\ profitable(k)
                      THEN Str("close") ELSE before[k].status

\* C27: closeSimulation returns the simulation data and the statistics as
\* the object holds them, the simulation data and the portfolio being the
\* ones of before the call, and a second call right after it returns the
\* same; the statistics are computed from the whole simulation data (its
\* number of rows), not added to the previous ones.
C27_CloseIsPureReduction ==
    [][call'.op = "closeSimulation" =>
           /\ returned' # None
           /\ returned' = <<self._simulation_data, self'._statistics>>
           /\ self'._simulation_data = self._simulation_data
           /\ self'._portfolio = self._portfolio
           /\ self'._statistics.number_of_trading_days
                  = Num(Len(self._simulation_data.data))
           /\ call.op = "closeSimulation" => returned' = returned]_vars

\* A row of a DataFrame is written when a cell of it is no longer the NaN
\* of construction.
Written(row) == \E c \in DOMAIN row : ~IsNaN(row[c])

\* C28: after runSimulationRound was called in order for the days 0..k
\* (day = k + 1), exactly the rows 0..k of the simulation data and of the
\* portfolio are written and every later row is unwritten; the simulation
\* data has one row per date of the index.
C28_TraceAndLedgerAdvance ==
    self # NoObject =>
        /\ Len(self._simulation_data.data) = Len(self._input_data_index)
        /\ \A i \in 0..(NumDays - 1) :
               /\ Written(SimRow(i)) <=> i < day
               /\ Written(PfRow(i)) <=> i < day

\* The cash of the positions of the given kind in the portfolio rows
\* 0..i_index: the sum of items * unit price.
Cash(position, i_index) ==
    Series_sum_from(
        [k \in 1..(i_index + 1) |->
            IF PfRow(k - 1).position = Str(position)
               /\ IsNum(PfRow(k - 1).items) /\ IsNum(PfRow(k - 1).unit_price)
            THEN Num(PfRow(k - 1).items.num * PfRow(k - 1).unit_price.num)
            ELSE NaN], 1)

\* C29: after runSimulationRound(k, signal), the days called in order,
\* balance[k] is the cash of the short positions minus the cash of the long
\* positions of the portfolio rows 0..k, and on a day k > 0 whose action is
\* neither open_long nor open_short balance[k] = balance[k-1].
C29_CashAccountedByLedger ==
    AfterRound =>
        LET k == call.i_index
        IN /\ SimRow(k).balance = Num(Cash("short", k) - Cash("long", k))
           /\ (/\ k > 0
               /\ SimRow(k).trading_action
                      \notin {Str("open_long"), Str("open_short")})
              => SimRow(k).balance = SimRow(k - 1).balance

\* C30: on a day i > 0 a signal that is neither the buy nor the sell signal
\* (None here) is processed as hold: row i of the simulation data has
\* signal hold, action none and the balance of row i - 1, and portfolio row
\* i is the none position.
C30_UnrecognisedSignalIsHold ==
    (/\ AfterRound /\ call.i_index > 0
     /\ call.signal \notin {TRADE_SIGNALS.buy, TRADE_SIGNALS.sell,
                            TRADE_SIGNALS.hold})
    => LET i == call.i_index
       IN /\ SimRow(i).signal = Str("hold")
          /\ SimRow(i).trading_action = Str("none")
          /\ IsNum(SimRow(i - 1).balance)
          /\ SimRow(i).balance = SimRow(i - 1).balance
          /\ PfRow(i) = NonePosition

====
